---- MODULE Spec2Model ----
(***************************************************************************)
(* Model of walking_generator/base.py: class BaseGenerator (the predictive *)
(* model core of the walking pattern generator) and BaseTypeSupport.       *)
(*                                                                         *)
(* Numbers.  The source computes in floating point; the model computes the *)
(* same expressions exactly, in scaled integers:                           *)
(*   - time is counted in units of 0.1 s, so the default T = 0.1 is T = 1  *)
(*     and the default T_step = 0.8 is T_step = 8;                         *)
(*   - lengths of the polygons are counted in units of 0.0001 m;           *)
(*   - h_com and g are counted in units of 0.01 (m, m/s^2);                *)
(*   - every entry of the prediction matrices is multiplied by SCALE.      *)
(* Arrays are functions on 0..n-1, as numpy indexes them.                  *)
(***************************************************************************)
EXTENDS Integers, Sequences, FiniteSets, TLC

\* ------------------------------------------------------------------ bounds
MaxN == 5
MaxNstep == 4
MaxCalls == 18
MaxNc == 20
MaxWeight == 2

\* ------------------------------------------------------- program constants
\* g = 9.81, in units of 0.01 m/s^2
g == 981
\* h_com = 0.81 (the default), in units of 0.01 m
h_com == 81
\* the default horizon: N = 16, T = 0.1, T_step = 0.8 (in units of 0.1 s)
DefaultN == 16
DefaultT == 1
DefaultTstep == 8

VARIABLES
    N, T, T_step, nf,           \* HorizonConfig, as __init__ stores it
    ctor,                       \* how __init__ ended: "ok" or the line that raised ValueError
    v_kp1, V_kp1,               \* selection vector and matrix
    calls, rollovers, rolled,   \* history: updatev calls made, rollover branches taken, latest call rolled over
    shifted,                    \* history: v_kp1 and V_kp1 as the latest updatev left them after line 292
    A0r, ubB0r, A0l, ubB0l,     \* half-plane systems of the reachability hulls
    A0rf, ubB0rf, A0lf, ubB0lf, \* half-plane systems of the foot soles
    currentSupport,             \* BaseTypeSupport: x, y, theta, foot
    Afoot, Bfoot, nc,           \* foot placement constraint and constraint count
    raised,                     \* the latest constraint assembly call raised ValueError
    built_for,                  \* history: the support state the latest buildFootConstraint read
    Pps, Ppu, Pvs, Pvu,         \* prediction matrices, every entry times SCALE
    Pas, Pau, Pzs, Pzu,
    c_k, dddC_k,                \* c_k_x, c_k_y, c_k_q and dddC_k_x, dddC_k_y, dddC_k_q, by axis
    C_kp1, dC_kp1, ddC_kp1,     \* C_kp1_x ... ddC_kp1_q, by axis, times SCALE
    Z_kp1                       \* Z_kp1_x, Z_kp1_y, by axis, times SCALE

config == <<N, T, T_step, nf>>
selection == <<v_kp1, V_kp1>>
history == <<calls, rollovers, rolled, shifted>>
hullsys == <<A0r, ubB0r, A0l, ubB0l, A0rf, ubB0rf, A0lf, ubB0lf>>
footcons == <<Afoot, Bfoot, nc, raised, built_for>>
matrices == <<Pps, Ppu, Pvs, Pvu, Pas, Pau, Pzs, Pzu>>
preview == <<c_k, dddC_k, C_kp1, dC_kp1, ddC_kp1, Z_kp1>>
vars == <<config, ctor, selection, history, hullsys, currentSupport, footcons, matrices, preview>>

Min(a, b) == IF a <= b THEN a ELSE b

Rows(n) == 0 .. n - 1

\* ---------------------------------------------------------------- __init__
\* sample periods T the generator is constructed with: 0.1 s (the default)
\* and 0.2 s
Periods == {1, 2}

\* the arguments <<N, T, T_step>> the generator is constructed with: the
\* defaults of line 16, and every small horizon whose step time is a whole
\* number of periods
HorizonConfigs ==
    {<<DefaultN, DefaultT, DefaultTstep>>}
        \cup {<<n, t, s * t>> : n \in 1 .. MaxN, t \in Periods, s \in 1 .. MaxNstep}

\* lines 45-49: T_window = N*T; nf = int(T_window/T_step), plus one when the
\* quotient has a fractional part
ComputeNf(n, t, ts) ==
    LET T_window == n * t
        q == T_window \div ts
    IN  IF T_window - q * ts > 0 THEN q + 1 ELSE q

\* lines 204, 279: nstep = int(T_step/T)
nstep == T_step \div T

\* lines 61-63: E = zeros((N/nf, N)); E[:, :N/nf] = -eye(N/nf);
\* E[:, -N/nf:] = eye(N/nf).  Python 2 divides integers by flooring, so the
\* second slice is -((-N) div nf) = ceil(N/nf) columns wide; numpy assigns an
\* m x m identity to an m x k slice when m = k, or when m = 1 (broadcast), and
\* raises ValueError otherwise.
EShapeOK ==
    LET m == N \div nf
        k == Min(N, -((-N) \div nf))
    IN  m = k \/ m = 1

\* ------------------------------------------------- _initialize_matrices
\* line 205: v_kp1[:nstep] = 1
InitialV == [i \in Rows(N) |-> IF i < nstep THEN 1 ELSE 0]

\* lines 207-210: V_kp1[a:b, j] = 1 with a = min((j+1)*nstep, N), b = min((j+2)*nstep, N)
InitialVmat ==
    [i \in Rows(N) |-> [j \in Rows(nf) |->
        LET a == Min((j + 1) * nstep, N)
            b == Min((j + 2) * nstep, N)
        IN  IF a <= i /\ i < b THEN 1 ELSE 0]]

\* ------------------------------------------------------------ linear algebra
\* numpy's dot, concatenate and transpose on arrays held as functions on 0..n-1
Size(a) == Cardinality(DOMAIN a)

Pair(a, b) == [c \in Rows(2) |-> IF c = 0 THEN a ELSE b]

\* sum of f[0..n-1]
RECURSIVE SumTo(_, _)
SumTo(f, n) == IF n = 0 THEN 0 ELSE SumTo(f, n - 1) + f[n - 1]

\* M.dot(x) for a matrix M and a vector x
DotVec(M, x) == [i \in DOMAIN M |-> SumTo([k \in DOMAIN x |-> M[i][k] * x[k]], Size(x))]

\* A.dot(B) for matrices A (r x m) and B (m x c)
DotMat(A, B) ==
    [i \in DOMAIN A |-> [j \in DOMAIN B[0] |->
        SumTo([k \in DOMAIN B |-> A[i][k] * B[k][j]], Size(B))]]

\* numpy.concatenate((a, b), 0) of two vectors or of two matrices of equal width
Concat0(a, b) ==
    [i \in Rows(Size(a) + Size(b)) |-> IF i < Size(a) THEN a[i] ELSE b[i - Size(a)]]

\* numpy.array([a, b]).T for two vectors of equal length: column a beside column b
Columns(a, b) == [i \in DOMAIN a |-> Pair(a[i], b[i])]

Zeros(n) == [i \in Rows(n) |-> 0]

\* the column c of a matrix, A[:, c]
Col(A, c) == [i \in DOMAIN A |-> A[i][c]]

\* ------------------------------------------------------- polygons (lines 212-238)
\* lines 213-217, in units of 0.0001 m
rfhull ==
    [i \in Rows(5) |->
        CASE i = 0 -> Pair(-2800, -2000)
          [] i = 1 -> Pair(-2000, -3000)
          [] i = 2 -> Pair(0, -4000)
          [] i = 3 -> Pair(2000, -3000)
          [] i = 4 -> Pair(2800, -2000)]

\* lines 219-223
lfhull ==
    [i \in Rows(5) |->
        CASE i = 0 -> Pair(-2800, 2000)
          [] i = 1 -> Pair(-2000, 3000)
          [] i = 2 -> Pair(0, 4000)
          [] i = 3 -> Pair(2000, 3000)
          [] i = 4 -> Pair(2800, 2000)]

\* lines 230-233
lfoot ==
    [i \in Rows(4) |->
        CASE i = 0 -> Pair(686, 290)
          [] i = 1 -> Pair(686, -290)
          [] i = 2 -> Pair(-686, -290)
          [] i = 3 -> Pair(-686, 290)]

\* lines 235-238
rfoot ==
    [i \in Rows(4) |->
        CASE i = 0 -> Pair(686, -290)
          [] i = 1 -> Pair(686, 290)
          [] i = 2 -> Pair(-686, 290)
          [] i = 3 -> Pair(-686, -290)]

\* ------------------------------------------------------ ComputeLinearSystem
\* the sign chosen without regard to the foot side
FootSign_Ignored(foot) == 1

\* lines 344-347
FootSign(foot) == IF foot = "left" THEN 1 ELSE -1

\* lines 348-366: row i of A0 and entry i of B0 for the edge from vertex i to
\* its successor
EdgeRow(hull, sign, i) ==
    LET nEdges == Size(hull)
        k == IF i = nEdges - 1 THEN 0 ELSE i + 1
        x1 == hull[i][0]
        y1 == hull[i][1]
        x2 == hull[k][0]
        y2 == hull[k][1]
        dx == y1 - y2
        dy == x2 - x1
        dc == dx * x1 + dy * y1
    IN  [A0 |-> Pair(sign * dx, sign * dy), B0 |-> sign * dc]

\* lines 340-366: the arrays written into the A0 and B0 arguments
ComputeLinearSystem(hull, foot) ==
    LET sign == FootSign(foot)
    IN  [A0 |-> [i \in DOMAIN hull |-> EdgeRow(hull, sign, i).A0],
         B0 |-> [i \in DOMAIN hull |-> EdgeRow(hull, sign, i).B0]]

\* ------------------------------------------------------ buildFootConstraint
\* math.cos and math.sin at theta quarter turns (theta * pi/2), where they are
\* exact
Cos(theta) == CASE theta % 4 = 0 -> 1 [] theta % 4 = 2 -> -1 [] OTHER -> 0
Sin(theta) == CASE theta % 4 = 1 -> 1 [] theta % 4 = 3 -> -1 [] OTHER -> 0

\* line 396
matSelec == [i \in Rows(2) |-> IF i = 0 THEN Pair(1, 0) ELSE Pair(-1, 1)]

\* line 400: rotation matrix from F_k+1 to F_k
RotMat(theta) ==
    [i \in Rows(2) |->
        IF i = 0 THEN Pair(Cos(theta), Sin(theta)) ELSE Pair(-Sin(theta), Cos(theta))]

\* lines 408-419: X_mat for column c = 0 (tmp1, tmp2), Y_mat for c = 1 (tmp3, tmp4)
SideMat(support, c) ==
    LET nEdges == Size(A0l)
        A0lrot == DotMat(A0l, RotMat(support.theta))
        A0rrot == DotMat(A0r, RotMat(support.theta))
        first == IF support.foot = "left" THEN A0lrot ELSE A0rrot
        second == IF support.foot = "left" THEN A0rrot ELSE A0lrot
    IN  Concat0(Columns(Col(first, c), Zeros(nEdges)),
                Columns(Zeros(nEdges), Col(second, c)))

\* lines 424-425
FootB0(support) ==
    LET B0full == Concat0(ubB0l, ubB0r)
        footSelec == [i \in Rows(2) |-> IF i = 0 THEN Pair(support.x, 0) ELSE Pair(support.y, 0)]
        bx == DotVec(SideMat(support, 0), footSelec[0])
        by == DotVec(SideMat(support, 1), footSelec[1])
    IN  [i \in DOMAIN B0full |-> B0full[i] + bx[i] + by[i]]

\* line 394: Afoot.resize(2*(N+nf, 2*nf)); the tuple is repeated, not doubled
ResizedShape == <<N + nf, 2 * nf, N + nf, 2 * nf>>

\* line 404
ncfoot == nf * Size(A0l)

\* lines 427-430: the four blocks are joined along axis 1, which numpy allows
\* only when they have the same number of rows
ConcatRowsAgree(support) == ncfoot = Size(SideMat(support, 0))

FootA(support) ==
    LET A0x == DotMat(SideMat(support, 0), matSelec)
        A0y == DotMat(SideMat(support, 1), matSelec)
    IN  [r \in Rows(ncfoot) |-> [c \in Rows(2 * N + 4) |->
            CASE c < N -> 0
              [] c >= N /\ c < N + 2 -> A0x[r][c - N]
              [] c >= N + 2 /\ c < 2 * N + 2 -> 0
              [] OTHER -> A0y[r][c - 2 * N - 2]]]

\* lines 387-432: what a call leaves in Afoot, Bfoot and nc, and whether it
\* raised, from the support it reads and the Bfoot and nc it starts with.  A
\* call that raises at line 427 has resized Afoot (line 394, all zeros) and
\* written nothing else.
FootConstraintBuilt(support, Bfoot0, nc0) ==
    IF ConcatRowsAgree(support)
    THEN [Afoot |-> [shape |-> <<ncfoot, 2 * N + 4>>, a |-> FootA(support)],
          Bfoot |-> FootB0(support),
          nc |-> nc0 + ncfoot,
          raised |-> FALSE]
    ELSE [Afoot |-> [shape |-> ResizedShape, a |-> <<>>],
          Bfoot |-> Bfoot0,
          nc |-> nc0,
          raised |-> TRUE]

buildFootConstraint ==
    /\ ctor # "ValueError_63"
    /\ nc < MaxNc
    /\ LET r == FootConstraintBuilt(currentSupport, Bfoot, nc)
       IN  /\ Afoot' = r.Afoot
           /\ Bfoot' = r.Bfoot
           /\ nc' = r.nc
           /\ raised' = r.raised
           /\ built_for' = currentSupport
    /\ UNCHANGED <<config, ctor, selection, history, hullsys, currentSupport, matrices, preview>>

\* lines 368-371: nc = 0; buildCoPconstraint() (lines 373-385, which writes
\* nothing); buildFootConstraint()
buildConstraints ==
    /\ ctor # "ValueError_63"
    /\ LET r == FootConstraintBuilt(currentSupport, Bfoot, 0)
       IN  /\ Afoot' = r.Afoot
           /\ Bfoot' = r.Bfoot
           /\ nc' = r.nc
           /\ raised' = r.raised
           /\ built_for' = currentSupport
    /\ UNCHANGED <<config, ctor, selection, history, hullsys, currentSupport, matrices, preview>>

\* ---------------------------------------------------------- BaseTypeSupport
\* lines 447-460
BaseTypeSupport(x, y, theta, foot) ==
    [x |-> x, y |-> y, theta |-> theta,
     dx |-> 0, dy |-> 0, dtheta |-> 0,
     ddx |-> 0, ddy |-> 0, ddtheta |-> 0,
     foot |-> foot]

\* stance positions the control loop stores, in units of 0.0001 m
SupportXY == {Pair(0, 0), Pair(95, 950)}

\* headings the control loop stores, in quarter turns
SupportTheta == {0, 1, 2, 3}

\* the control loop replaces the current support state between cycles
SetCurrentSupport ==
    /\ ctor # "ValueError_63"
    /\ \E p \in SupportXY, theta \in SupportTheta, foot \in {"left", "right"} :
          currentSupport' = BaseTypeSupport(p[0], p[1], theta, foot)
    /\ UNCHANGED <<config, ctor, selection, history, hullsys, footcons, matrices, preview>>

\* ------------------------------------- _initialize_matrices, lines 190-201
\* the factor every prediction matrix entry and every predicted value carries,
\* so that the divisions by 2, by 6 and by g are exact
SCALE == 6 * g

\* h_com/g times SCALE: 0.01*h_com m over 0.01*g m/s^2 is h_com/g s^2, which
\* is 100*h_com/g in units of (0.1 s)^2
HcomOverG == (100 * h_com * SCALE) \div g

Triple(a, b, c) == [k \in Rows(3) |-> CASE k = 0 -> a [] k = 1 -> b [] OTHER -> c]

\* line 191
PzsRow(i) == Triple(SCALE, i * T * SCALE, (i ^ 2 * T ^ 2 * SCALE) \div 2 + HcomOverG)
\* line 192
PpsRow(i) == Triple(SCALE, i * T * SCALE, (i ^ 2 * T ^ 2 * SCALE) \div 2)
\* line 193
PvsRow(i) == Triple(0, SCALE, i * T * SCALE)
\* line 194
PasRow(i) == Triple(0, 0, SCALE)

\* lines 196-201: the entries with j <= i are written, the others stay zero
\* line 198
PzuEntry(i, j) ==
    IF j <= i
    THEN ((3 * (i - j) ^ 2 + 3 * (i - j) + 1) * T ^ 3 * SCALE) \div 6 + T * HcomOverG
    ELSE 0
\* line 199
PpuEntry(i, j) ==
    IF j <= i THEN ((3 * (i - j) ^ 2 + 3 * (i - j) + 1) * T ^ 3 * SCALE) \div 6 ELSE 0
\* line 200
PvuEntry(i, j) == IF j <= i THEN ((2 * (i - j) + 1) * T ^ 2 * SCALE) \div 2 ELSE 0
\* line 201
PauEntry(i, j) == IF j <= i THEN T * SCALE ELSE 0

\* ---------------------------------------------------------------- simulate
Axes == {"x", "y", "q"}

AddVec(a, b) == [i \in DOMAIN a |-> a[i] + b[i]]

\* lines 254-267: S.dot(c_k_*) + U.dot(dddC_k_*)
Predict(S, U, c, u) == AddVec(DotVec(S, c), DotVec(U, u))

\* CoM states and candidate jerk sequences of one axis: the zero input, each
\* unit CoM state, each unit jerk impulse, and one input with every entry set
Impulse(j) == [k \in Rows(N) |-> IF k = j THEN 1 ELSE 0]

MixedInput == [c |-> Triple(1, -1, 2), u |-> [k \in Rows(N) |-> 1 + (k % 2)]]

ZeroInput == [c |-> Triple(0, 0, 0), u |-> Zeros(N)]

AxisInputs ==
    {ZeroInput, MixedInput}
        \cup {[c |-> Triple(1, 0, 0), u |-> Zeros(N)],
              [c |-> Triple(0, 1, 0), u |-> Zeros(N)],
              [c |-> Triple(0, 0, 1), u |-> Zeros(N)]}
        \cup {[c |-> Triple(0, 0, 0), u |-> Impulse(j)] : j \in Rows(N)}

Negated(a) == [c |-> [k \in DOMAIN a.c |-> -a.c[k]], u |-> [k \in DOMAIN a.u |-> -a.u[k]]]

\* lines 249-267.  The caller stores the CoM state and the candidate jerks of
\* the cycle in c_k_* and dddC_k_* and calls simulate(); the heading axis is
\* driven with the negated x input.
simulate ==
    /\ ctor # "ValueError_63"
    /\ \E a \in AxisInputs, b \in {ZeroInput, MixedInput} :
          /\ c_k' = [x |-> a.c, y |-> b.c, q |-> Negated(a).c]
          /\ dddC_k' = [x |-> a.u, y |-> b.u, q |-> Negated(a).u]
    /\ C_kp1' = [x |-> Predict(Pps, Ppu, c_k'.x, dddC_k'.x),
                 y |-> Predict(Pps, Ppu, c_k'.y, dddC_k'.y),
                 q |-> Predict(Pps, Ppu, c_k'.q, dddC_k'.q)]
    /\ dC_kp1' = [x |-> Predict(Pvs, Pvu, c_k'.x, dddC_k'.x),
                  y |-> Predict(Pvs, Pvu, c_k'.y, dddC_k'.y),
                  q |-> Predict(Pvs, Pvu, c_k'.q, dddC_k'.q)]
    /\ ddC_kp1' = [x |-> Predict(Pas, Pau, c_k'.x, dddC_k'.x),
                   y |-> Predict(Pas, Pau, c_k'.y, dddC_k'.y),
                   q |-> Predict(Pas, Pau, c_k'.q, dddC_k'.q)]
    /\ Z_kp1' = [x |-> Predict(Pzs, Pzu, c_k'.x, dddC_k'.x),
                 y |-> Predict(Pzs, Pzu, c_k'.y, dddC_k'.y)]
    /\ UNCHANGED <<config, ctor, selection, history, hullsys, currentSupport, footcons, matrices>>

\* ----------------------------------------------------------------- updatev
\* the shift taken two samples at a time
ShiftVector_ByTwo(v) == [i \in Rows(N) |-> IF i < N - 2 THEN v[i + 2] ELSE v[i]]

\* line 285: v_kp1[:-1] = v_kp1[1:]   (the last entry is not written)
ShiftVector(v) == [i \in Rows(N) |-> IF i < N - 1 THEN v[i + 1] ELSE v[i]]

\* the shift without line 292: the dropped entry of v_kp1 is lost
ShiftMatrix_TailLost(V, first_entry_v_kp1) ==
    [i \in Rows(N) |-> IF i < N - 1 THEN V[i + 1] ELSE [j \in Rows(nf) |-> 0]]

\* lines 286-292: V_kp1[:-1,:] = V_kp1[1:,:]; V_kp1[-1,:] = 0; V_kp1[-1,-1] = first_entry_v_kp1
ShiftMatrix(V, first_entry_v_kp1) ==
    [i \in Rows(N) |->
        IF i < N - 1 THEN V[i + 1]
        ELSE [j \in Rows(nf) |-> IF j = nf - 1 THEN first_entry_v_kp1 ELSE 0]]

\* line 296: (v_kp1 == 0).all()
AllZero(v) == \A i \in Rows(N) : v[i] = 0

\* line 297: v_kp1[:] = V_kp1[:,0]
RolloverVector(V) == [i \in Rows(N) |-> V[i][0]]

\* lines 298-299: V_kp1[:,:-1] = V_kp1[:,1:]; V_kp1[:,-1] = 0
RolloverMatrix(V) ==
    [i \in Rows(N) |-> [j \in Rows(nf) |-> IF j < nf - 1 THEN V[i][j + 1] ELSE 0]]

\* lines 269-299.  The method reads N, nf, T_step/T and the two selection
\* arrays and nothing else; it needs the arrays allocated (lines 169-170),
\* which every construction that got past line 63 has done.
updatev ==
    /\ ctor # "ValueError_63"
    /\ calls < MaxCalls
    /\ LET first_entry_v_kp1 == v_kp1[0]
           v1 == ShiftVector(v_kp1)
           V1 == ShiftMatrix(V_kp1, first_entry_v_kp1)
       IN  /\ shifted' = [v |-> v1, V |-> V1]
           /\ IF AllZero(v1)
              THEN /\ v_kp1' = RolloverVector(V1)
                   /\ V_kp1' = RolloverMatrix(V1)
                   /\ rolled' = TRUE
                   /\ rollovers' = rollovers + 1
              ELSE /\ v_kp1' = v1
                   /\ V_kp1' = V1
                   /\ rolled' = FALSE
                   /\ rollovers' = rollovers
    /\ calls' = calls + 1
    /\ UNCHANGED <<config, ctor, hullsys, currentSupport, footcons, matrices, preview>>

\* lines 246-247
update == updatev

\* ------------------------------------------------------------ construction
Init ==
    /\ \E h \in HorizonConfigs :
          /\ N = h[1]
          /\ T = h[2]
          /\ T_step = h[3]
          /\ nf = ComputeNf(h[1], h[2], h[3])
    /\ IF ~EShapeOK
       THEN \* line 63 raised: nothing below it was allocated
            /\ ctor = "ValueError_63"
            /\ v_kp1 = <<>> /\ V_kp1 = <<>>
            /\ A0r = <<>> /\ ubB0r = <<>> /\ A0l = <<>> /\ ubB0l = <<>>
            /\ A0rf = <<>> /\ ubB0rf = <<>> /\ A0lf = <<>> /\ ubB0lf = <<>>
            /\ currentSupport = <<>>
            /\ Afoot = <<>> /\ Bfoot = <<>> /\ nc = 0 /\ raised = TRUE
            /\ built_for = <<>>
            /\ Pps = <<>> /\ Ppu = <<>> /\ Pvs = <<>> /\ Pvu = <<>>
            /\ Pas = <<>> /\ Pau = <<>> /\ Pzs = <<>> /\ Pzu = <<>>
            /\ c_k = <<>> /\ dddC_k = <<>>
            /\ C_kp1 = <<>> /\ dC_kp1 = <<>> /\ ddC_kp1 = <<>> /\ Z_kp1 = <<>>
       ELSE \* lines 161-162, 173 (_initialize_matrices), 177 (buildConstraints)
            /\ currentSupport = BaseTypeSupport(0, 0, 0, "left")
            /\ c_k = [a \in Axes |-> Triple(0, 0, 0)]
            /\ dddC_k = [a \in Axes |-> Zeros(N)]
            /\ C_kp1 = [a \in Axes |-> Zeros(N)]
            /\ dC_kp1 = [a \in Axes |-> Zeros(N)]
            /\ ddC_kp1 = [a \in Axes |-> Zeros(N)]
            /\ Z_kp1 = [a \in {"x", "y"} |-> Zeros(N)]
            /\ Pzs = [i \in Rows(N) |-> PzsRow(i)]
            /\ Pps = [i \in Rows(N) |-> PpsRow(i)]
            /\ Pvs = [i \in Rows(N) |-> PvsRow(i)]
            /\ Pas = [i \in Rows(N) |-> PasRow(i)]
            /\ Pzu = [i \in Rows(N) |-> [j \in Rows(N) |-> PzuEntry(i, j)]]
            /\ Ppu = [i \in Rows(N) |-> [j \in Rows(N) |-> PpuEntry(i, j)]]
            /\ Pvu = [i \in Rows(N) |-> [j \in Rows(N) |-> PvuEntry(i, j)]]
            /\ Pau = [i \in Rows(N) |-> [j \in Rows(N) |-> PauEntry(i, j)]]
            /\ v_kp1 = InitialV
            /\ V_kp1 = InitialVmat
            /\ A0r = ComputeLinearSystem(rfhull, "right").A0
            /\ ubB0r = ComputeLinearSystem(rfhull, "right").B0
            /\ A0l = ComputeLinearSystem(lfhull, "left").A0
            /\ ubB0l = ComputeLinearSystem(lfhull, "left").B0
            /\ A0rf = ComputeLinearSystem(rfoot, "right").A0
            /\ ubB0rf = ComputeLinearSystem(rfoot, "right").B0
            /\ A0lf = ComputeLinearSystem(lfoot, "left").A0
            /\ ubB0lf = ComputeLinearSystem(lfoot, "left").B0
            /\ LET r == FootConstraintBuilt(currentSupport, <<>>, 0)
               IN  /\ Afoot = r.Afoot
                   /\ Bfoot = r.Bfoot
                   /\ nc = r.nc
                   /\ raised = r.raised
                   /\ built_for = currentSupport
                   /\ ctor = IF r.raised THEN "ValueError_427" ELSE "ok"
    /\ calls = 0
    /\ rollovers = 0
    /\ rolled = FALSE
    /\ shifted = [v |-> v_kp1, V |-> V_kp1]

\* The operations fall into groups that write disjoint attributes: the
\* selection state (update, updatev), the foot placement constraint
\* (buildConstraints, buildFootConstraint, fed by the current support) and
\* the predicted trajectories (simulate).
NextSelection == update \/ updatev

NextFoot == SetCurrentSupport \/ buildConstraints \/ buildFootConstraint

NextPreview == simulate

Next == NextSelection \/ NextFoot \/ NextPreview

Spec == Init /\ [][Next]_vars

SpecSelection == Init /\ [][NextSelection]_vars

SpecFoot == Init /\ [][NextFoot]_vars

SpecPreview == Init /\ [][NextPreview]_vars

\* ------------------------------------------------------- selection claims
\* __init__ got past line 63, so every attribute below it exists
Allocated == ctor # "ValueError_63"

\* __init__ returned
Constructed == ctor = "ok"

RowSum(V, i) == SumTo(V[i], nf)

C7_RolloverCanonical ==
    (Constructed /\ rolled) =>
        \A i \in Rows(N) : v_kp1[i] = IF i < nstep THEN 1 ELSE 0

\* C8: after construction and after every updatev() call, v_kp1 holds at
\* least one 1 (so v_kp1 and V_kp1 are never both exhausted).
C8_VectorNeverExhausted ==
    Allocated => \E i \in Rows(N) : v_kp1[i] = 1

\* a second rollover has been taken and the vector it left holds a 1
C8_Witness == Allocated /\ rollovers >= 2 /\ rolled /\ v_kp1[0] = 1

\* C9: every updatev() call first shifts the horizon by exactly one sample:
\* entry i of v_kp1 and row i of V_kp1 take the old entry and row i+1 for
\* i < N-1, the new last row of V_kp1 is zero except in its last column,
\* which takes the dropped v_kp1[0]; a call that takes no rollover leaves
\* exactly that shifted state.
C9_ShiftByOne ==
    [][calls' # calls =>
        /\ \A i \in Rows(N - 1) :
              /\ shifted'.v[i] = v_kp1[i + 1]
              /\ shifted'.V[i] = V_kp1[i + 1]
        /\ \A j \in Rows(nf - 1) : shifted'.V[N - 1][j] = 0
        /\ shifted'.V[N - 1][nf - 1] = v_kp1[0]
        /\ ~rolled' => (v_kp1' = shifted'.v /\ V_kp1' = shifted'.V)]_vars
\* a call on a horizon of several samples has shifted a 1 out of v_kp1 into
\* the last row of V_kp1 and taken no rollover
C9_Witness ==
    /\ Allocated /\ calls >= 1 /\ ~rolled /\ N >= 3 /\ nf >= 2
    /\ shifted.V[N - 1][nf - 1] = 1
    /\ v_kp1 = shifted.v

\* --------------------------------------------------- foot constraint claims
IsDefaultConfig == N = DefaultN /\ T = DefaultT /\ T_step = DefaultTstep

\* number of edges of a reachability hull
nEdgesHull == Size(lfhull)

\* the decision vector (jerks x, footsteps x, jerks y, footsteps y) with zero
\* jerks, the first planned footstep at (px, py) and the others at the origin
Decision(px, py) ==
    [c \in Rows(2 * (N + nf)) |->
        CASE c = N -> px
          [] c = 2 * N + nf -> py
          [] OTHER -> 0]

\* the rows of the first footstep's block all satisfy Afoot*u <= Bfoot
AcceptsFirstStep(px, py) ==
    \A r \in Rows(nEdgesHull) :
        SumTo([c \in DOMAIN Afoot.a[r] |-> Afoot.a[r][c] * Decision(px, py)[c]],
              Size(Afoot.a[r])) <= Bfoot[r]

\* C4: with the default configuration and the stance (0, 0, theta 0, left),
\* the assembled (Afoot, Bfoot) accepts the first footstep (0.0, -0.19) and
\* rejects the first footstep (0.0, 0.01).
C4_DefaultStanceStepWidth ==
    (IsDefaultConfig /\ ~raised /\ built_for = BaseTypeSupport(0, 0, 0, "left")) =>
        /\ AcceptsFirstStep(0, -1900)
        /\ ~AcceptsFirstStep(0, 100)

\* C5: for every valid HorizonConfig construction completes without a
\* dimension error, and buildFootConstraint leaves Afoot with nf*E rows and
\* 2*(N+nf) columns, zero in the jerk columns, block k relating footstep k to
\* footstep k-1 (the first to the stance alone), Bfoot of length nf*E, and nc
\* raised by nf*E.
C5_FootConstraintForEveryNf ==
    /\ ctor = "ok"
    /\ ~raised
    /\ Afoot.shape = <<nf * nEdgesHull, 2 * (N + nf)>>
    /\ \A r \in Rows(nf * nEdgesHull) :
          /\ \A c \in Rows(N) : Afoot.a[r][c] = 0 /\ Afoot.a[r][N + nf + c] = 0
          /\ \A k \in Rows(nf) :
                LET b == r \div nEdgesHull
                IN  /\ (k > b \/ k < b - 1) =>
                          (Afoot.a[r][N + k] = 0 /\ Afoot.a[r][2 * N + nf + k] = 0)
                    /\ (b > 0 /\ k = b) =>
                          /\ Afoot.a[r][N + k - 1] = -Afoot.a[r][N + k]
                          /\ Afoot.a[r][2 * N + nf + k - 1] = -Afoot.a[r][2 * N + nf + k]
    /\ Size(Bfoot) = nf * nEdgesHull
    /\ nc >= nf * nEdgesHull
    /\ nc % (nf * nEdgesHull) = 0

\* the vertices of a polygon weighted by w, and the weights' total
WeightedSum(hull, w, c) == SumTo([i \in DOMAIN hull |-> w[i] * hull[i][c]], Size(hull))

\* C6 for one polygon and the system ComputeLinearSystem wrote for it: every
\* vertex satisfies every row, with equality on the rows of its two edges,
\* and every strict convex combination of the vertices (a point strictly
\* inside) satisfies every row strictly.
RoundTrip(hull, A0, B0) ==
    LET E == Size(hull)
    IN  /\ \A i \in Rows(E), r \in Rows(E) :
              LET lhs == A0[r][0] * hull[i][0] + A0[r][1] * hull[i][1]
              IN  IF r = i \/ r = ((i + E - 1) % E) THEN lhs = B0[r] ELSE lhs <= B0[r]
        /\ \A w \in [Rows(E) -> 1 .. MaxWeight] :
              LET px == WeightedSum(hull, w, 0)
                  py == WeightedSum(hull, w, 1)
                  total == SumTo(w, E)
              IN  \A r \in Rows(E) : A0[r][0] * px + A0[r][1] * py < B0[r] * total

\* C6: each of the four configured polygons, with its own foot side, round
\* trips through ComputeLinearSystem.
C6_PolygonRoundTrip ==
    Allocated =>
        /\ RoundTrip(lfhull, A0l, ubB0l)
        /\ RoundTrip(rfhull, A0r, ubB0r)
        /\ RoundTrip(lfoot, A0lf, ubB0lf)
        /\ RoundTrip(rfoot, A0rf, ubB0rf)
\* the systems are written: the apex of the left hull lies on the rows of its
\* two edges, and a point inside the right hull is strictly inside row 4
C6_Witness ==
    /\ Allocated
    /\ A0l[1][0] * lfhull[2][0] + A0l[1][1] * lfhull[2][1] = ubB0l[1]
    /\ A0l[2][0] * lfhull[2][0] + A0l[2][1] * lfhull[2][1] = ubB0l[2]
    /\ A0r[4][1] * (-3000) < ubB0r[4]

\* ------------------------------------------------------------ preview claims
\* C3: at every sample the predicted ZMP is the predicted position minus
\* (h_com/g) times the predicted acceleration (x and y axes; the predicted
\* accelerations are whole multiples of g here, so the product is exact).
C3_ZmpIsPositionMinusAcceleration ==
    Constructed =>
        \A a \in {"x", "y"}, i \in Rows(N) :
            /\ ddC_kp1[a][i] % g = 0
            /\ Z_kp1[a][i] = C_kp1[a][i] - (ddC_kp1[a][i] \div g) * 100 * h_com

\* the state the exact constant-jerk integrator x' = A*x + B*u reaches from x0
\* (times SCALE) under the jerks u[0..n-1], with A = [[1,T,T^2/2],[0,1,T],[0,0,1]]
\* and B = (T^3/6, T^2/2, T)
RECURSIVE Integrated(_, _, _)
Integrated(x0, u, n) ==
    IF n = 0 THEN x0
    ELSE LET x == Integrated(x0, u, n - 1)
             j == u[n - 1] * SCALE
         IN  Triple(x[0] + T * x[1] + (T ^ 2 * x[2]) \div 2 + (T ^ 3 * j) \div 6,
                    x[1] + T * x[2] + (T ^ 2 * j) \div 2,
                    x[2] + T * j)

ScaledState(c) == [k \in DOMAIN c |-> c[k] * SCALE]

\* C10: at every sample i, on every axis, the predicted position, velocity and
\* acceleration are the state of the exact constant-jerk integrator after i+1
\* sample periods from the CoM state c_k under the jerks dddC_k.
C10_PredictionIsIntegratorState ==
    Constructed =>
        \A a \in Axes, i \in Rows(N) :
            Triple(C_kp1[a][i], dC_kp1[a][i], ddC_kp1[a][i])
                = Integrated(ScaledState(c_k[a]), dddC_k[a], i + 1)
====
